---- MODULE Spec2Model ----
(***************************************************************************)
(* Model of src/app.py: a Streamlit page that classifies the labels of an  *)
(* object detector against a weapon table, aggregates a threat level and   *)
(* keeps submitted incidents in a session-scoped list.                     *)
(*                                                                         *)
(* Python strings that the code inspects character by character (detector  *)
(* labels, weapon keywords) are sequences of one-character strings.  The   *)
(* emoji of the alert levels are written by their code points ("U+1F534"). *)
(* Floats are scaled integers: a score is a percentage, a coordinate is    *)
(* in units of 1e-4 degree.                                                *)
(***************************************************************************)
EXTENDS Integers, Sequences, FiniteSets, TLC

\* ------------------------------------------------------------- bounds
MaxIncidents == 2    \* submissions in one session
MaxDetections == 3   \* length of the Detection lists given to the aggregator alone

\* ------------------------------------------------------------ strings
\* str.lower() on one character, for the letters the modelled labels use
LowerChar(c) ==
  CASE c = "R" -> "r"
    [] c = "G" -> "g"
    [] c = "K" -> "k"
    [] c = "S" -> "s"
    [] c = "B" -> "b"
    [] c = "M" -> "m"
    [] c = "P" -> "p"
    [] OTHER -> c

\* str.lower()
Lower(s) == [i \in 1..Len(s) |-> LowerChar(s[i])]

\* Python's `sub in s` on strings: sub occurs as a contiguous slice of s
StrIn(sub, s) ==
  \E i \in 0..(Len(s) - Len(sub)) :
    \A j \in 1..Len(sub) : s[i + j] = sub[j]

\* str.split(): the maximal runs of non-blank characters
RECURSIVE SplitFrom(_, _, _)
SplitFrom(s, i, cur) ==
  IF i > Len(s)
    THEN IF cur = <<>> THEN <<>> ELSE <<cur>>
    ELSE IF s[i] = " "
           THEN (IF cur = <<>> THEN <<>> ELSE <<cur>>) \o SplitFrom(s, i + 1, <<>>)
           ELSE SplitFrom(s, i + 1, Append(cur, s[i]))

Split(s) == SplitFrom(s, 1, <<>>)

\* the characters of the weapon names the code writes as literals
Chars(w) ==
  CASE w = "knife" -> <<"k","n","i","f","e">>
    [] w = "gun" -> <<"g","u","n">>
    [] w = "pistol" -> <<"p","i","s","t","o","l">>
    [] w = "rifle" -> <<"r","i","f","l","e">>
    [] w = "stick" -> <<"s","t","i","c","k">>
    [] w = "baseball bat" -> <<"b","a","s","e","b","a","l","l"," ","b","a","t">>
    [] w = "machete" -> <<"m","a","c","h","e","t","e">>
    [] w = "sword" -> <<"s","w","o","r","d">>
    [] w = "stone" -> <<"s","t","o","n","e">>
    [] w = "club" -> <<"c","l","u","b">>

\* ------------------------------------------------------ static tables
Red == "U+1F534 Red"
Yellow == "U+1F7E1 Yellow"
Green == "U+1F7E2 Green"

WEAPON_SEVERITY ==
  [w \in {"gun", "pistol", "rifle", "knife", "machete", "sword",
          "stick", "stone", "club"} |->
     CASE w \in {"gun", "pistol", "rifle"} ->
            [severity |-> "SERIOUS-URGENT", alert_level |-> Red, risk |-> "High"]
       [] w \in {"knife", "machete", "sword"} ->
            [severity |-> "SERIOUS", alert_level |-> Yellow, risk |-> "Medium"]
       [] w \in {"stick", "stone", "club"} ->
            [severity |-> "LOW", alert_level |-> Green, risk |-> "Low"]]

KENYA_COUNTIES ==
  <<"Mombasa", "Kwale", "Kilifi", "Tana River", "Lamu", "Taita-Taveta", "Garissa",
    "Wajir", "Mandera", "Marsabit", "Isiolo", "Meru", "Tharaka-Nithi", "Embu",
    "Kitui", "Machakos", "Makueni", "Nyandarua", "Nyeri", "Kirinyaga", "Murang'a",
    "Kiambu", "Turkana", "West Pokot", "Samburu", "Trans-Nzoia", "Uasin Gishu",
    "Elgeyo-Marakwet", "Nandi", "Baringo", "Laikipia", "Nakuru", "Narok", "Kajiado",
    "Kericho", "Bomet", "Kakamega", "Vihiga", "Bungoma", "Busia", "Siaya", "Kisumu",
    "Homa Bay", "Migori", "Kisii", "Nyamira", "Nairobi">>

\* --------------------------------------------------------- detection
\* the literal list of detect_weapons
weapon_keywords == <<"knife", "gun", "pistol", "rifle", "stick", "baseball bat">>

\* the condition of the inner loop: the keyword, or any word of it, is in the label
KeywordMatches(weapon, label) ==
  \/ StrIn(Chars(weapon), label)
  \/ LET words == Split(Chars(weapon))
     IN \E k \in 1..Len(words) : StrIn(words[k], label)

\* the dict appended for one (result, weapon) pair
MakeDetection(weapon_type, result) ==
  [weapon |-> weapon_type,
   confidence |-> result.score,
   box |-> result.box,
   severity |-> WEAPON_SEVERITY[weapon_type].severity,
   alert_level |-> WEAPON_SEVERITY[weapon_type].alert_level,
   risk |-> WEAPON_SEVERITY[weapon_type].risk]

\* the inner loop over weapon_keywords[k..] for one result, label its lower-cased label
RECURSIVE InnerLoop(_, _, _)
InnerLoop(result, label, k) ==
  IF k > Len(weapon_keywords) THEN <<>>
  ELSE LET weapon == weapon_keywords[k]
       IN (IF KeywordMatches(weapon, label) /\ weapon \in DOMAIN WEAPON_SEVERITY
             THEN <<MakeDetection(weapon, result)>>
             ELSE <<>>)
          \o InnerLoop(result, label, k + 1)

\* the outer loop over results[i..]
RECURSIVE OuterLoop(_, _)
OuterLoop(results, i) ==
  IF i > Len(results) THEN <<>>
  ELSE InnerLoop(results[i], Lower(results[i].label), 1) \o OuterLoop(results, i + 1)

\* An image is modelled by what the detector does on it: the call raises, or
\* it returns a list of items; an item with wellformed = FALSE lacks a key
\* the loop reads, so reading it raises inside the try block.
LoopRaises(results) == \E i \in 1..Len(results) : ~results[i].wellformed

\* the items before the first one that raises
RECURSIVE GoodPrefix(_, _)
GoodPrefix(results, i) ==
  IF i > Len(results) \/ ~results[i].wellformed THEN <<>>
  ELSE <<results[i]>> \o GoodPrefix(results, i + 1)

\* variant: the except branch returns what the loop had collected so far
detect_weapons_partial(image, object_detector) ==
  IF object_detector = "None" THEN <<>>
  ELSE IF image.raises THEN <<>>
  ELSE OuterLoop(GoodPrefix(image.results, 1), 1)

detect_weapons(image, object_detector) ==
  IF object_detector = "None" THEN <<>>
  ELSE IF image.raises \/ LoopRaises(image.results) THEN <<>>
  ELSE OuterLoop(image.results, 1)

\* ------------------------------------------------------- aggregation

\* variant: only the first detection's risk is looked at
analyze_threat_level_first(dw, sentiment_analyzer) ==
  IF dw = <<>> THEN <<Green, "LOW", "No immediate threat detected">>
  ELSE IF dw[1].risk = "High"
    THEN <<Red, "SERIOUS-URGENT", "Immediate action required - High-risk weapons detected">>
  ELSE IF dw[1].risk = "Medium"
    THEN <<Yellow, "SERIOUS", "Caution advised - Medium-risk weapons detected">>
  ELSE <<Green, "LOW", "Monitor situation - Low-risk items detected">>

\* variant: the test for an empty list is missing
analyze_threat_level_noempty(dw, sentiment_analyzer) ==
  IF \E i \in 1..Len(dw) : dw[i].risk = "High"
    THEN <<Red, "SERIOUS-URGENT", "Immediate action required - High-risk weapons detected">>
  ELSE IF \E i \in 1..Len(dw) : dw[i].risk = "Medium"
    THEN <<Yellow, "SERIOUS", "Caution advised - Medium-risk weapons detected">>
  ELSE <<Green, "LOW", "Monitor situation - Low-risk items detected">>

\* variant: a Low item is tested for before a Medium one
analyze_threat_level_lowfirst(dw, sentiment_analyzer) ==
  IF dw = <<>> THEN <<Green, "LOW", "No immediate threat detected">>
  ELSE IF \E i \in 1..Len(dw) : dw[i].risk = "High"
    THEN <<Red, "SERIOUS-URGENT", "Immediate action required - High-risk weapons detected">>
  ELSE IF \E i \in 1..Len(dw) : dw[i].risk = "Low"
    THEN <<Green, "LOW", "Monitor situation - Low-risk items detected">>
  ELSE <<Yellow, "SERIOUS", "Caution advised - Medium-risk weapons detected">>

\* variant: without a sentiment analyzer no threat is reported
analyze_threat_level_sentiment(dw, sentiment_analyzer) ==
  IF dw = <<>> \/ sentiment_analyzer = "None"
    THEN <<Green, "LOW", "No immediate threat detected">>
  ELSE IF \E i \in 1..Len(dw) : dw[i].risk = "High"
    THEN <<Red, "SERIOUS-URGENT", "Immediate action required - High-risk weapons detected">>
  ELSE IF \E i \in 1..Len(dw) : dw[i].risk = "Medium"
    THEN <<Yellow, "SERIOUS", "Caution advised - Medium-risk weapons detected">>
  ELSE <<Green, "LOW", "Monitor situation - Low-risk items detected">>

analyze_threat_level(detected_weapons, sentiment_analyzer) ==
  IF detected_weapons = <<>>
    THEN <<Green, "LOW", "No immediate threat detected">>
  ELSE LET risk_levels == [i \in 1..Len(detected_weapons) |-> detected_weapons[i].risk]
       IN IF \E i \in 1..Len(risk_levels) : risk_levels[i] = "High"
            THEN <<Red, "SERIOUS-URGENT",
                   "Immediate action required - High-risk weapons detected">>
          ELSE IF \E i \in 1..Len(risk_levels) : risk_levels[i] = "Medium"
            THEN <<Yellow, "SERIOUS", "Caution advised - Medium-risk weapons detected">>
          ELSE <<Green, "LOW", "Monitor situation - Low-risk items detected">>

\* variant: the first comparison is written with an underscore
get_recommendations_typo(severity) ==
  IF severity = "SERIOUS_URGENT"
    THEN "Immediate dispatch of armed response unit. Establish perimeter. Evacuate civilians if necessary. Contact emergency services."
  ELSE IF severity = "SERIOUS"
    THEN "Dispatch patrol unit for investigation. Increase surveillance in the area. Consider community alert."
  ELSE "Monitor situation. Routine patrol check recommended. Document for trend analysis."

get_recommendations(severity) ==
  IF severity = "SERIOUS-URGENT"
    THEN "Immediate dispatch of armed response unit. Establish perimeter. Evacuate civilians if necessary. Contact emergency services."
  ELSE IF severity = "SERIOUS"
    THEN "Dispatch patrol unit for investigation. Increase surveillance in the area. Consider community alert."
  ELSE "Monitor situation. Routine patrol check recommended. Document for trend analysis."

\* ------------------------------------------------------------ inputs
\* detector labels, as the model returns them (before .lower())
L_Rifle == <<"R","i","f","l","e">>
L_knife == <<"k","n","i","f","e">>
L_stick == <<"h","o","c","k","e","y"," ","s","t","i","c","k">>
L_machete == <<"m","a","c","h","e","t","e">>
L_bat == <<"b","a","s","e","b","a","l","l"," ","b","a","t">>

Box(i) == [xmin |-> 10 * i, ymin |-> 10 * i, xmax |-> 10 * i + 5, ymax |-> 10 * i + 5]

Item(label, score, i) == [wellformed |-> TRUE, label |-> label, score |-> score, box |-> Box(i)]
BadItem(i) == [wellformed |-> FALSE, label |-> <<>>, score |-> 0, box |-> Box(i)]

Img(results) == [raises |-> FALSE, results |-> results]

\* the uploaded images, each given by the detector's behaviour on it
Images ==
  { [raises |-> TRUE, results |-> <<>>],
    Img(<<Item(L_machete, 80, 1)>>),
    Img(<<Item(L_bat, 75, 1)>>),
    Img(<<Item(L_stick, 60, 1)>>),
    Img(<<Item(L_knife, 30, 1), Item(L_Rifle, 91, 2)>>),
    Img(<<Item(L_stick, 60, 1), Item(L_knife, 30, 2)>>),
    Img(<<Item(L_Rifle, 91, 1), BadItem(2)>>) }

\* the counties chosen in the manual location form
CountyInputs == {KENYA_COUNTIES[1]}

\* the settings of the three filter boxes of the history page that are tried
FilterInputs ==
  { [county |-> "All", severity |-> "All", status |-> "All"],
    [county |-> "Nairobi", severity |-> "All", status |-> "All"],
    [county |-> "All", severity |-> "SERIOUS-URGENT", status |-> "Active"] }

\* the seconds that may pass between one reading of the clock and the next
ClockSteps == {0, 1}

\* the manual form with its default text and number values, and the simulated GPS
ManualLocation(county) ==
  [county |-> county, sub_county |-> "", ward |-> "", location |-> "",
   latitude |-> -12921, longitude |-> 368219]

GpsLocation ==
  [county |-> "Nairobi", sub_county |-> "Westlands", ward |-> "Parklands",
   location |-> "Nairobi CBD", latitude |-> -12921, longitude |-> 368219]

LocationInputs == {ManualLocation(c) : c \in CountyInputs} \cup {GpsLocation}

\* ------------------------------------------------------------- state
VARIABLES
  models,            \* st.cache_resource entry of load_models: <<>> or the pair returned
  incidents,         \* st.session_state.incidents
  analysis_results,  \* st.session_state.analysis_results: <<>> when the key is absent
  page,              \* the sidebar selectbox
  filters,           \* the three filter boxes of the history page
  now,               \* the last wall-clock second read
  image,             \* the image analysed in the last run, <<>> when none was
  detected_weapons,  \* the list detect_weapons returned in the last run
  threat,            \* the triple analyze_threat_level returned in the last run
  filtered_incidents,\* the list the history page displayed in the last run
  json_data          \* the document the export button produced in the last run

vars == <<models, incidents, analysis_results, page, filters, now, image,
          detected_weapons, threat, filtered_incidents, json_data>>

PageReport == "Report Incident"
PageDashboard == "Dashboard"
PageMap == "Incident Map"
PageHistory == "Incident History"
Pages == {PageReport, PageDashboard, PageMap, PageHistory}

NoFilters == [county |-> "All", severity |-> "All", status |-> "All"]

\* ------------------------------------------------------ model loader
ModelsLoaded == <<"object_detector", "sentiment_analyzer">>
ModelsFailed == <<"None", "None">>

\* load_models behind st.cache_resource: the body runs only while nothing is
\* cached, and what it returns (the pair, or (None, None) from the except
\* branch) is cached for the life of the process.
\* variant: a cached failure is not kept, the body runs again
load_models_retry(cache, init_ok) ==
  IF cache = ModelsLoaded THEN cache
  ELSE IF init_ok THEN ModelsLoaded ELSE ModelsFailed

load_models(cache, init_ok) ==
  IF cache # <<>> THEN cache
  ELSE IF init_ok THEN ModelsLoaded ELSE ModelsFailed

\* what the call of load_models at the top of a run can return
LoadOutcomes(cache) == {load_models(cache, init_ok) : init_ok \in BOOLEAN}

\* ----------------------------------------------------- incident store
\* strftime of the clock reading t (seconds since the session began): the
\* formats '%Y%m%d_%H%M%S' and '%Y-%m-%d %H:%M:%S' both have one-second resolution
FormatId(t) == "INC_" \o ToString(t)
FormatTimestamp(t) == "TS " \o ToString(t)

\* the dict built on submit; both strftime calls are taken in second t
MakeIncident(results, location_data, t) ==
  [id |-> FormatId(t),
   timestamp |-> FormatTimestamp(t),
   detected_weapons |-> results.detected_weapons,
   alert_level |-> results.alert_level,
   severity |-> results.severity,
   risk_assessment |-> results.risk_assessment,
   location |-> location_data,
   status |-> "Active",
   recommendations |-> get_recommendations(results.severity)]

\* variant: the new incident is put first
AppendIncident_first(list, incident_data) == <<incident_data>> \o list

\* st.session_state.incidents.append(incident_data)
AppendIncident(list, incident_data) == Append(list, incident_data)

\* the list comprehensions of the history page
\* variant: the comparison reads the free-text 'location' entry
FilterByCounty_location(list, filter_county) ==
  LET Test(i) == i.location.location = filter_county IN SelectSeq(list, Test)

FilterByCounty(list, filter_county) ==
  LET Test(i) == i.location.county = filter_county IN SelectSeq(list, Test)

FilterBySeverity(list, filter_severity) ==
  LET Test(i) == i.severity = filter_severity IN SelectSeq(list, Test)

FilterByStatus(list, filter_status) ==
  LET Test(i) == i.status = filter_status IN SelectSeq(list, Test)

ApplyFilters(list, f) ==
  LET a == list
      b == IF f.county # "All" THEN FilterByCounty(a, f.county) ELSE a
      c == IF f.severity # "All" THEN FilterBySeverity(b, f.severity) ELSE b
      d == IF f.status # "All" THEN FilterByStatus(c, f.status) ELSE c
  IN d

\* what the history page shows: nothing when the incident list is empty
HistoryView(list, f) == IF list = <<>> THEN <<>> ELSE ApplyFilters(list, f)

\* st.download_button(key=f"download_{id}") in the loop over the filtered
\* incidents: Streamlit raises on a repeated key and the run stops there
DuplicateKey(list) ==
  \E i, j \in 1..Len(list) : i # j /\ list[i].id = list[j].id

\* ------------------------------------------------------- JSON export
\* Python values, tagged by their type
PyStr(s) == [k |-> "str", v |-> s]
PyInt(n) == [k |-> "int", v |-> n]
PyFloat(x) == [k |-> "float", v |-> x]
PyList(items) == [k |-> "list", v |-> items]
PyDict(pairs) == [k |-> "dict", v |-> pairs]    \* <<key, value>> in insertion order

\* the Python object that st.session_state.incidents is
PyBox(b) ==
  PyDict(<< <<"xmin", PyInt(b.xmin)>>, <<"ymin", PyInt(b.ymin)>>,
            <<"xmax", PyInt(b.xmax)>>, <<"ymax", PyInt(b.ymax)>> >>)

PyDetection(d) ==
  PyDict(<< <<"weapon", PyStr(d.weapon)>>,
            <<"confidence", PyFloat(d.confidence)>>,
            <<"box", PyBox(d.box)>>,
            <<"severity", PyStr(d.severity)>>,
            <<"alert_level", PyStr(d.alert_level)>>,
            <<"risk", PyStr(d.risk)>> >>)

RECURSIVE PyDetections(_, _)
PyDetections(list, n) ==
  IF n > Len(list) THEN <<>> ELSE <<PyDetection(list[n])>> \o PyDetections(list, n + 1)

PyLocation(l) ==
  PyDict(<< <<"county", PyStr(l.county)>>,
            <<"sub_county", PyStr(l.sub_county)>>,
            <<"ward", PyStr(l.ward)>>,
            <<"location", PyStr(l.location)>>,
            <<"latitude", PyFloat(l.latitude)>>,
            <<"longitude", PyFloat(l.longitude)>> >>)

PyIncident(i) ==
  PyDict(<< <<"id", PyStr(i.id)>>,
            <<"timestamp", PyStr(i.timestamp)>>,
            <<"detected_weapons",
              PyList(PyDetections(i.detected_weapons, 1))>>,
            <<"alert_level", PyStr(i.alert_level)>>,
            <<"severity", PyStr(i.severity)>>,
            <<"risk_assessment", PyStr(i.risk_assessment)>>,
            <<"location", PyLocation(i.location)>>,
            <<"status", PyStr(i.status)>>,
            <<"recommendations", PyStr(i.recommendations)>> >>)

RECURSIVE PyIncidentsFrom(_, _)
PyIncidentsFrom(list, n) ==
  IF n > Len(list) THEN <<>> ELSE <<PyIncident(list[n])>> \o PyIncidentsFrom(list, n + 1)

PyIncidents(list) == PyList(PyIncidentsFrom(list, 1))

\* json.dumps writes a string with ensure_ascii: a character outside ASCII
\* becomes its \uXXXX escapes (a surrogate pair beyond the BMP)
EscapeString(s) ==
  CASE s = Red -> "\\ud83d\\udd34 Red"
    [] s = Yellow -> "\\ud83d\\udfe1 Yellow"
    [] s = Green -> "\\ud83d\\udfe2 Green"
    [] OTHER -> s

\* json.loads reads a string: \uXXXX escapes become their characters
UnescapeString(s) ==
  CASE s = "\\ud83d\\udd34 Red" -> Red
    [] s = "\\ud83d\\udfe1 Yellow" -> Yellow
    [] s = "\\ud83d\\udfe2 Green" -> Green
    [] OTHER -> s

\* the lexical tokens of a JSON document (white space, which indent=2 adds
\* and the reader skips, is left out)
Punct(c) == [t |-> "punct", v |-> c]
StringTok(s) == [t |-> "string", v |-> EscapeString(s)]
\* int.__repr__ writes digits only; float.__repr__ always writes a '.' or an
\* exponent, and is the shortest text that reads back as the same float
IntTok(n) == [t |-> "int", v |-> n]
FloatTok(x) == [t |-> "float", v |-> x]

IsPunct(tok, c) == tok.t = "punct" /\ tok.v = c

\* json.dumps(obj): the items of a list and the members of a dict are
\* written in order, a comma before each one but the first
RECURSIVE json_dumps(_), DumpItems(_, _), DumpMembers(_, _)
json_dumps(obj) ==
  CASE obj.k = "str" -> <<StringTok(obj.v)>>
    [] obj.k = "int" -> <<IntTok(obj.v)>>
    [] obj.k = "float" -> <<FloatTok(obj.v)>>
    [] obj.k = "list" -> <<Punct("[")>> \o DumpItems(obj.v, 1) \o <<Punct("]")>>
    [] obj.k = "dict" -> <<Punct("{")>> \o DumpMembers(obj.v, 1) \o <<Punct("}")>>

DumpItems(items, n) ==
  IF n > Len(items) THEN <<>>
  ELSE (IF n > 1 THEN <<Punct(",")>> ELSE <<>>)
       \o json_dumps(items[n])
       \o DumpItems(items, n + 1)

DumpMembers(pairs, n) ==
  IF n > Len(pairs) THEN <<>>
  ELSE (IF n > 1 THEN <<Punct(",")>> ELSE <<>>)
       \o <<StringTok(pairs[n][1]), Punct(":")>>
       \o json_dumps(pairs[n][2])
       \o DumpMembers(pairs, n + 1)

\* json.loads: a recursive-descent reader; each function returns the value
\* read and the position of the next token
RECURSIVE ParseValue(_, _), ParseItems(_, _, _), ParseMembers(_, _, _)
ParseValue(toks, i) ==
  LET tok == toks[i] IN
  CASE tok.t = "string" -> [val |-> PyStr(UnescapeString(tok.v)), next |-> i + 1]
    [] tok.t = "int" -> [val |-> PyInt(tok.v), next |-> i + 1]
    [] tok.t = "float" -> [val |-> PyFloat(tok.v), next |-> i + 1]
    [] IsPunct(tok, "[") ->
         IF IsPunct(toks[i + 1], "]")
           THEN [val |-> PyList(<<>>), next |-> i + 2]
           ELSE ParseItems(toks, i + 1, <<>>)
    [] IsPunct(tok, "{") ->
         IF IsPunct(toks[i + 1], "}")
           THEN [val |-> PyDict(<<>>), next |-> i + 2]
           ELSE ParseMembers(toks, i + 1, <<>>)

ParseItems(toks, i, acc) ==
  LET r == ParseValue(toks, i) IN
  IF IsPunct(toks[r.next], ",")
    THEN ParseItems(toks, r.next + 1, Append(acc, r.val))
    ELSE [val |-> PyList(Append(acc, r.val)), next |-> r.next + 1]

ParseMembers(toks, i, acc) ==
  LET key == UnescapeString(toks[i].v)
      r == ParseValue(toks, i + 2)
  IN IF IsPunct(toks[r.next], ",")
       THEN ParseMembers(toks, r.next + 1, Append(acc, <<key, r.val>>))
       ELSE [val |-> PyDict(Append(acc, <<key, r.val>>)), next |-> r.next + 1]

json_loads(toks) == ParseValue(toks, 1).val

\* variant: the export writes the list the page shows
ExportDocument_filtered(list, f) == json_dumps(PyIncidents(HistoryView(list, f)))

\* json.dumps(st.session_state.incidents, indent=2), under the filters f in force
ExportDocument(list, f) == json_dumps(PyIncidents(list))

\* ----------------------------------------------------------- actions
\* Every interaction reruns the script from the top: load_models first, then
\* the branch of the selected page.

Init ==
  /\ models \in LoadOutcomes(<<>>)
  /\ incidents = <<>>
  /\ analysis_results = <<>>
  /\ page = PageReport
  /\ filters = NoFilters
  /\ now = 0
  /\ image = <<>>
  /\ detected_weapons = <<>>
  /\ threat = <<>>
  /\ filtered_incidents = <<>>
  /\ json_data = <<>>

\* the triple assigned in the else branch of the display code
NoWeaponsResult == <<Green, "LOW", "No immediate threat detected">>

\* variant: the no-weapons triple is assigned whatever was detected
MakeResults_always_clear(detected, ret) ==
  [detected_weapons |-> detected,
   alert_level |-> NoWeaponsResult[1],
   severity |-> NoWeaponsResult[2],
   risk_assessment |-> NoWeaponsResult[3]]

\* the dict stored under st.session_state.analysis_results; its 'image' entry,
\* which no later code reads, is left out
MakeResults(detected, ret) ==
  LET shown == IF detected # <<>> THEN ret ELSE NoWeaponsResult
  IN [detected_weapons |-> detected,
      alert_level |-> shown[1],
      severity |-> shown[2],
      risk_assessment |-> shown[3]]

\* the "Analyze Threat" button, on an uploaded image
Analyze(img, m) ==
  /\ page = PageReport
  /\ LET detected == detect_weapons(img, m[1])
         ret == analyze_threat_level(detected, m[2])
     IN /\ models' = m
        /\ detected_weapons' = detected
        /\ threat' = ret
        /\ analysis_results' = <<MakeResults(detected, ret)>>
  /\ image' = <<img>>
  /\ filtered_incidents' = <<>>
  /\ json_data' = <<>>
  /\ UNCHANGED <<incidents, page, filters, now>>

\* variant: the stored result is not deleted at the end of the submission
Submit_keep(location_data, t, m) ==
  /\ page = PageReport
  /\ analysis_results # <<>>
  /\ Len(incidents) < MaxIncidents
  /\ models' = m
  /\ incidents' = AppendIncident(incidents, MakeIncident(analysis_results[1], location_data, t))
  /\ now' = t
  /\ image' = <<>>
  /\ detected_weapons' = <<>>
  /\ threat' = <<>>
  /\ filtered_incidents' = <<>>
  /\ json_data' = <<>>
  /\ UNCHANGED <<analysis_results, page, filters>>

\* the "Submit Incident Report" button, shown while analysis_results is set;
\* t is the clock reading of datetime.now()
Submit(location_data, t, m) ==
  /\ page = PageReport
  /\ analysis_results # <<>>
  /\ Len(incidents) < MaxIncidents
  /\ models' = m
  /\ incidents' = AppendIncident(incidents, MakeIncident(analysis_results[1], location_data, t))
  /\ analysis_results' = <<>>
  /\ now' = t
  /\ image' = <<>>
  /\ detected_weapons' = <<>>
  /\ threat' = <<>>
  /\ filtered_incidents' = <<>>
  /\ json_data' = <<>>
  /\ UNCHANGED <<page, filters>>

\* the sidebar selectbox; the widgets of the page left are reset
Navigate(p, m) ==
  /\ p # page
  /\ models' = m
  /\ page' = p
  /\ filters' = NoFilters
  /\ filtered_incidents' = IF p = PageHistory THEN HistoryView(incidents, NoFilters) ELSE <<>>
  /\ image' = <<>>
  /\ detected_weapons' = <<>>
  /\ threat' = <<>>
  /\ json_data' = <<>>
  /\ UNCHANGED <<incidents, analysis_results, now>>

\* a change of the filter boxes of the history page
SetFilters(f, m) ==
  /\ page = PageHistory
  /\ incidents # <<>>
  /\ f # filters
  /\ models' = m
  /\ filters' = f
  /\ filtered_incidents' = HistoryView(incidents, f)
  /\ image' = <<>>
  /\ detected_weapons' = <<>>
  /\ threat' = <<>>
  /\ json_data' = <<>>
  /\ UNCHANGED <<incidents, analysis_results, page, now>>

\* the "Export All Data (JSON)" button, below the loop over the filtered incidents
Export(m) ==
  /\ page = PageHistory
  /\ incidents # <<>>
  /\ ~DuplicateKey(HistoryView(incidents, filters))
  /\ models' = m
  /\ filtered_incidents' = HistoryView(incidents, filters)
  /\ json_data' = ExportDocument(incidents, filters)
  /\ image' = <<>>
  /\ detected_weapons' = <<>>
  /\ threat' = <<>>
  /\ UNCHANGED <<incidents, analysis_results, page, filters, now>>

Next ==
  \/ \E img \in Images, m \in LoadOutcomes(models) : Analyze(img, m)
  \/ \E l \in LocationInputs, dt \in ClockSteps, m \in LoadOutcomes(models) :
       Submit(l, now + dt, m)
  \/ \E p \in Pages, m \in LoadOutcomes(models) : Navigate(p, m)
  \/ \E f \in FilterInputs, m \in LoadOutcomes(models) : SetFilters(f, m)
  \/ \E m \in LoadOutcomes(models) : Export(m)

Spec == Init /\ [][Next]_vars

\* ---------------------------------------- the aggregator on its own
\* every Detection the table can give
TableDetections ==
  {MakeDetection(w, Item(Chars(w), 50, 1)) : w \in DOMAIN WEAPON_SEVERITY}

RECURSIVE ListsUpTo(_, _)
ListsUpTo(S, n) ==
  IF n = 0 THEN {<<>>}
  ELSE LET shorter == ListsUpTo(S, n - 1)
       IN shorter \cup {Append(l, x) : l \in {m \in shorter : Len(m) = n - 1}, x \in S}

InitThreat ==
  /\ models \in LoadOutcomes(<<>>)
  /\ detected_weapons \in ListsUpTo(TableDetections, MaxDetections)
  /\ incidents = <<>>
  /\ analysis_results = <<>>
  /\ page = PageReport
  /\ filters = NoFilters
  /\ now = 0
  /\ image = <<>>
  /\ threat = <<>>
  /\ filtered_incidents = <<>>
  /\ json_data = <<>>

\* one call of analyze_threat_level on the list drawn
Aggregate ==
  /\ threat = <<>>
  /\ threat' = analyze_threat_level(detected_weapons, models[2])
  /\ UNCHANGED <<models, incidents, analysis_results, page, filters, now,
                 image, detected_weapons, filtered_incidents, json_data>>

NextThreat == Aggregate

SpecThreat == InitThreat /\ [][NextThreat]_vars

\* ============================================================ claims
\* the run just made was an Analyze on which the detector produced its output
DetectorAnswered ==
  /\ image # <<>>
  /\ models[1] # "None"
  /\ ~image[1].raises
  /\ ~LoopRaises(image[1].results)

\* the detector raised in the Analyze run just made (in the call or in the loop)
DetectorRaised ==
  /\ image # <<>>
  /\ models[1] # "None"
  /\ (image[1].raises \/ LoopRaises(image[1].results))

\* the weapon keywords the specification lists
ListedKeywords ==
  {"gun", "pistol", "rifle", "knife", "machete", "sword", "stick", "stone", "club",
   "baseball bat"}

\* the Detections emitted for the item with the given box
DetectionsAt(box) == LET AtBox(d) == d.box = box IN SelectSeq(detected_weapons, AtBox)

NoThreatTriple == <<Green, "LOW", "No immediate threat detected">>

NoThreatResults ==
  [detected_weapons |-> <<>>, alert_level |-> Green, severity |-> "LOW",
   risk_assessment |-> "No immediate threat detected"]

\* C1: every output item whose lower-cased label contains one of the ten listed
\* keywords gets exactly one Detection, carrying the table's severity,
\* alert_level and risk for that keyword.
C1_OneDetectionPerKeywordItem ==
  DetectorAnswered =>
    \A i \in 1..Len(image[1].results) : \A w \in ListedKeywords :
      StrIn(Chars(w), Lower(image[1].results[i].label)) =>
        LET ds == DetectionsAt(image[1].results[i].box)
        IN /\ Len(ds) = 1
           /\ w \in DOMAIN WEAPON_SEVERITY
           /\ ds[1].severity = WEAPON_SEVERITY[w].severity
           /\ ds[1].alert_level = WEAPON_SEVERITY[w].alert_level
           /\ ds[1].risk = WEAPON_SEVERITY[w].risk

\* C2: a Detection list with at least one High item gives Red / SERIOUS-URGENT,
\* whatever the other items, their number or their order.
C2_HighGivesRed ==
  (threat # <<>> /\ \E i \in 1..Len(detected_weapons) : detected_weapons[i].risk = "High")
    => threat[1] = Red /\ threat[2] = "SERIOUS-URGENT"

C2_Witness ==
  /\ threat # <<>>
  /\ Len(detected_weapons) = 3
  /\ detected_weapons[1].risk = "Low"
  /\ detected_weapons[2].risk = "Medium"
  /\ detected_weapons[3].risk = "High"
  /\ threat[1] = Red

\* C3: on an empty Detection list analyze_threat_level returns Green / LOW /
\* "No immediate threat detected", and that triple is what Analyze stores as
\* the pending result when no weapon was found.
C3_EmptyGivesNoThreat ==
  (image # <<>> /\ detected_weapons = <<>>)
    => threat = NoThreatTriple /\ analysis_results = <<NoThreatResults>>

C3_Witness ==
  /\ DetectorAnswered
  /\ detected_weapons = <<>>
  /\ analysis_results = <<NoThreatResults>>

\* the precedence table applied to the highest risk present in a list
RiskRank(r) == CASE r = "High" -> 3 [] r = "Medium" -> 2 [] r = "Low" -> 1

MaxRank(dw) ==
  IF dw = <<>> THEN 0
  ELSE CHOOSE n \in 1..3 :
         /\ \E i \in 1..Len(dw) : RiskRank(dw[i].risk) = n
         /\ \A i \in 1..Len(dw) : RiskRank(dw[i].risk) <= n

AlertOfRank(n) == CASE n = 3 -> Red [] n = 2 -> Yellow [] OTHER -> Green
SeverityOfRank(n) == CASE n = 3 -> "SERIOUS-URGENT" [] n = 2 -> "SERIOUS" [] OTHER -> "LOW"

\* C4: every Incident's alert_level and severity are what the precedence table
\* gives for the highest-risk Detection of its own detected_weapons.
C4_IncidentConsistent ==
  \A n \in 1..Len(incidents) :
    /\ incidents[n].alert_level = AlertOfRank(MaxRank(incidents[n].detected_weapons))
    /\ incidents[n].severity = SeverityOfRank(MaxRank(incidents[n].detected_weapons))

C4_Witness ==
  /\ Len(incidents) = 2
  /\ Len(incidents[1].detected_weapons) = 2
  /\ incidents[1].detected_weapons[1].risk = "Medium"
  /\ incidents[1].alert_level = Red
  /\ incidents[2].alert_level = Yellow
  /\ page = PageHistory

AnySubmit ==
  \E l \in LocationInputs, dt \in ClockSteps, m \in LoadOutcomes(models) :
    Submit(l, now + dt, m)

\* C5: the incident list changes only by a Submit, which adds one Incident at
\* the end and leaves the Incidents already there as they were, in place.
C5_AppendOnly ==
  [][ incidents' # incidents =>
        /\ AnySubmit
        /\ Len(incidents') = Len(incidents) + 1
        /\ SubSeq(incidents', 1, Len(incidents)) = incidents ]_vars

C5_Witness ==
  /\ Len(incidents) = 2
  /\ incidents[1].location.county = "Nairobi"
  /\ incidents[2].location.county = "Mombasa"
  /\ json_data # <<>>
  /\ analysis_results # <<>>

\* the positions of the incidents of a county, and the j-th of them
CountyPositions(c) == {i \in 1..Len(incidents) : incidents[i].location.county = c}
NthPosition(P, j) == CHOOSE i \in P : Cardinality({k \in P : k <= i}) = j

\* C6: with only the county filter set, the list shown holds exactly the
\* incidents of that county, in the order they have in the incident list.
C6_CountyFilterExact ==
  (/\ page = PageHistory
   /\ incidents # <<>>
   /\ filters.county # "All" /\ filters.severity = "All" /\ filters.status = "All")
    => LET P == CountyPositions(filters.county)
       IN /\ Len(filtered_incidents) = Cardinality(P)
          /\ \A j \in 1..Len(filtered_incidents) :
               filtered_incidents[j] = incidents[NthPosition(P, j)]

C6_Witness ==
  /\ page = PageHistory
  /\ filters = [county |-> "Nairobi", severity |-> "All", status |-> "All"]
  /\ Len(incidents) = 2
  /\ incidents[1].location.county = "Mombasa"
  /\ filtered_incidents = <<incidents[2]>>

\* C7: reading the exported document back gives the incident list as it was
\* at the export: as many incidents, in the same order, with the same values.
C7_ExportRoundTrip ==
  json_data # <<>> => json_loads(json_data) = PyIncidents(incidents)

C7_Witness ==
  /\ json_data # <<>>
  /\ Len(incidents) = 2
  /\ incidents[1].alert_level = Red
  /\ Len(incidents[1].detected_weapons) = 2
  /\ filters.county = "Nairobi"
  /\ Len(filtered_incidents) = 1

\* C8: once load_models has returned (None, None) it returns it in every later
\* run, and every Analyze then finds nothing and stores the no-threat result.
C8_FailedLoadIsFinal ==
  [][ models = ModelsFailed =>
        /\ models' = ModelsFailed
        /\ image' # <<>> =>
             /\ detected_weapons' = <<>>
             /\ threat' = NoThreatTriple
             /\ analysis_results' = <<NoThreatResults>> ]_vars

C8_Witness ==
  /\ models = ModelsFailed
  /\ Len(incidents) = 2
  /\ incidents[2].alert_level = Green
  /\ json_data # <<>>
  /\ analysis_results = <<NoThreatResults>>

\* C9: when the detector raises in an Analyze, detect_weapons returns an empty
\* list, the incident list is as before, and the run ends with the no-threat
\* result stored, so that Submit is offered as after any other Analyze.
C9_RaiseGivesEmpty ==
  [][ DetectorRaised' =>
        /\ detected_weapons' = <<>>
        /\ incidents' = incidents
        /\ models' = models
        /\ analysis_results' = <<NoThreatResults>> ]_vars

C9_Witness ==
  /\ DetectorRaised
  /\ ~image[1].raises
  /\ detected_weapons = <<>>
  /\ Len(incidents) = 1
  /\ incidents[1].alert_level = Red

AllTriples ==
  { <<Red, "SERIOUS-URGENT", "Immediate action required - High-risk weapons detected">>,
    <<Yellow, "SERIOUS", "Caution advised - Medium-risk weapons detected">>,
    <<Green, "LOW", "Monitor situation - Low-risk items detected">>,
    NoThreatTriple }

\* C10: a list without a High item but with a Medium one gives Yellow /
\* SERIOUS / "Caution advised ..."; a non-empty list of Low items only gives
\* Green / LOW / "Monitor situation ..."; every list gives one of the four triples.
C10_MediumThenLow ==
  threat # <<>> =>
    LET Has(r) == \E i \in 1..Len(detected_weapons) : detected_weapons[i].risk = r
    IN /\ threat \in AllTriples
       /\ (~Has("High") /\ Has("Medium")) =>
            threat = <<Yellow, "SERIOUS", "Caution advised - Medium-risk weapons detected">>
       /\ (detected_weapons # <<>> /\ ~Has("High") /\ ~Has("Medium")) =>
            threat = <<Green, "LOW", "Monitor situation - Low-risk items detected">>

C10_Witness ==
  /\ threat # <<>>
  /\ Len(detected_weapons) = 3
  /\ detected_weapons[1].risk = "Low"
  /\ detected_weapons[2].risk = "Medium"
  /\ detected_weapons[3].risk = "Low"
  /\ threat[1] = Yellow

\* the values the second element of load_models' result can take
SentimentValues == {ModelsLoaded[2], ModelsFailed[2]}

\* the fields of an Incident that come from the analysis, as a run with
\* sentiment analyzer sa would have stored them for the detections dw
DerivedFields(dw, sa) ==
  LET r == MakeResults(dw, analyze_threat_level(dw, sa))
  IN [alert_level |-> r.alert_level,
      severity |-> r.severity,
      risk_assessment |-> r.risk_assessment,
      recommendations |-> get_recommendations(r.severity)]

\* C11: the triple an Analyze run obtained, the result it stored and the
\* derived fields of every submitted Incident are those any other value of
\* the sentiment analyzer (None included) gives for the same detections.
C11_SentimentIrrelevant ==
  \A sa \in SentimentValues :
    /\ image # <<>> =>
         /\ threat = analyze_threat_level(detected_weapons, sa)
         /\ analysis_results = <<MakeResults(detected_weapons, analyze_threat_level(detected_weapons, sa))>>
    /\ \A n \in 1..Len(incidents) :
         LET d == DerivedFields(incidents[n].detected_weapons, sa)
         IN /\ incidents[n].alert_level = d.alert_level
            /\ incidents[n].severity = d.severity
            /\ incidents[n].risk_assessment = d.risk_assessment
            /\ incidents[n].recommendations = d.recommendations

C11_Witness ==
  /\ models = ModelsLoaded
  /\ image # <<>>
  /\ threat[1] = Yellow
  /\ Len(incidents) = 1
  /\ incidents[1].alert_level = Red
  /\ Len(incidents[1].detected_weapons) = 2

ArmedResponseText ==
  "Immediate dispatch of armed response unit. Establish perimeter. Evacuate civilians if necessary. Contact emergency services."
PatrolUnitText ==
  "Dispatch patrol unit for investigation. Increase surveillance in the area. Consider community alert."
MonitorText ==
  "Monitor situation. Routine patrol check recommended. Document for trend analysis."

StatusValues == {"Active", "Resolved", "Under Investigation"}

\* C12: every Incident's recommendations are the text its own severity selects
\* (SERIOUS-URGENT: armed response, SERIOUS: patrol unit, otherwise: monitor),
\* and its status is Active, one of the three status values.
C12_RecommendationsAndStatus ==
  \A n \in 1..Len(incidents) :
    /\ incidents[n].severity = "SERIOUS-URGENT" => incidents[n].recommendations = ArmedResponseText
    /\ incidents[n].severity = "SERIOUS" => incidents[n].recommendations = PatrolUnitText
    /\ incidents[n].severity \notin {"SERIOUS-URGENT", "SERIOUS"} =>
         incidents[n].recommendations = MonitorText
    /\ incidents[n].status = "Active"
    /\ incidents[n].status \in StatusValues

C12_Witness ==
  /\ Len(incidents) = 2
  /\ incidents[1].severity = "SERIOUS-URGENT"
  /\ incidents[1].recommendations = ArmedResponseText
  /\ incidents[2].severity = "SERIOUS"
  /\ incidents[2].recommendations = PatrolUnitText
  /\ incidents[2].status = "Active"

\* C13: an Incident is added only while a pending result exists, and adding it
\* removes the pending result; only an Analyze run makes a pending result, and
\* it stores the detections of that run, which the next Incident then carries.
C13_SubmitConsumesPending ==
  [][ /\ incidents' # incidents =>
           /\ analysis_results # <<>>
           /\ analysis_results' = <<>>
           /\ incidents'[Len(incidents')].detected_weapons = analysis_results[1].detected_weapons
           /\ incidents'[Len(incidents')].alert_level = analysis_results[1].alert_level
      /\ (analysis_results' # <<>> /\ analysis_results' # analysis_results) => image' # <<>>
      /\ image' # <<>> =>
           /\ analysis_results' # <<>>
           /\ analysis_results'[1].detected_weapons = detected_weapons' ]_vars

\* an Incident has been submitted, its pending result is gone, and a second
\* one, analysed after it, has been submitted with its own detections
C13_Witness ==
  /\ Len(incidents) = 2
  /\ analysis_results = <<>>
  /\ page = PageReport
  /\ incidents[1].detected_weapons # incidents[2].detected_weapons
  /\ incidents[2].detected_weapons # <<>>

\* C14: no two Incidents of the incident list have the same id.
C14_UniqueIds ==
  \A i, j \in 1..Len(incidents) : i # j => incidents[i].id # incidents[j].id

====
